---- MODULE Spec2Model ----
(***************************************************************************)
(* Model of cpp/server/ct-mirror.cc: the start-up sequence of main(), the  *)
(* pending-STH queue filled by the new_sth callback, the STHUpdater thread *)
(* that drains it, and the task tree (fetcher_task and its two children)   *)
(* that supervises them.                                                   *)
(***************************************************************************)
EXTENDS Integers, Sequences, FiniteSets, TLC

\* ---------------------------------------------------------------- bounds
MaxTreeSize == 2        \* tree sizes range over 1..MaxTreeSize
MaxTimestamp == 2       \* timestamps range over 1..MaxTimestamp
MaxNewSth == 2          \* heads the RemotePeer delivers in one run
MaxCount == 2           \* saturation point of the event counters

NumNodes == 3           \* nodes of the cluster
MaxTTL == 1             \* lease time to live, in clock ticks
MaxServed == 2          \* published served sizes are 0, 50, .., 50 * MaxServed

Sizes == 1..MaxTreeSize
Nodes == 1..NumNodes
Timestamps == 1..MaxTimestamp

\* ct::SignedTreeHead, reduced to the two fields the program reads.
SignedTreeHead == [tree_size : Sizes, timestamp : Timestamps]

None == [none |-> TRUE]

\* ---------------------------------------------------------------- flags
\* Flag values that matter to main().  A string flag is modelled by the
\* small set of values that the code can tell apart.
Dirs == {"", "d1"}
KeyFiles == {"", "missing", "garbage", "valid"}

Flags ==
  [sqlite_db : {"", "db"}, leveldb_db : {"", "db"},
   cert_dir : Dirs, tree_dir : Dirs,
   target_public_key : KeyFiles,
   target_log_uri : {"", "uri"},
   etcd_host : {"", "etcd"},
   server : {"localhost"}]

VARIABLES
  FLAGS,            \* the parsed command line
  main_pc,          \* position of main()
  exit_status,      \* "running", "exit1" (exit(1)), "abort" (CHECK failure)
  db,               \* "none" or the kind of Database created
  db_tree_size,     \* db->TreeSize()
  etcd_client,      \* "none", "fake" or "real"
  server_initialised,
  cluster_config,   \* None or the ClusterConfig stored in the consistent store
  election_started,
  is_master,
  peer_added,       \* fetcher->AddPeer("target", peer) has run
  queue_mutex,      \* "free", or "updater" while STHUpdater holds the lock
  queue,            \* map<int64_t, SignedTreeHead>
  new_sth_calls,    \* number of new_sth calls so far
  received_older,   \* the last new_sth call logged "Received older STH"
  updater_pc,       \* position of the STHUpdater thread
  local_size,       \* STHUpdater's local_size
  promoted,         \* heads passed to NewTreeHead, in call order
  tick_promoted,    \* heads passed to NewTreeHead while the lock is held
  fetcher_returned, \* fetcher_task.task()->Return() was called
  peer_done,        \* the RemotePeer child task has returned
  updater_returns,  \* number of task->Return(CANCELLED) calls by STHUpdater
  sleeps_after_cancel, \* sleeps finished since cancellation was requested
  tick_queue,       \* the queue as STHUpdater found it when it took the lock
  rejected_candidates, \* candidate heads the RemotePeer's verifier rejected
  election,         \* cluster: per node "idle", "contending" or "master"
  node_up,          \* cluster: per node, whether its process is running
  lease_holder,     \* cluster: node holding the election lease, 0 for none
  lease_ttl,        \* cluster: time left before the lease lapses
  node_served,      \* cluster: served tree size each node has published
  servable,         \* cluster: aggregated servable size of the cluster view
  view_stale        \* cluster: a publication is not yet in the cluster view

vars == <<FLAGS, main_pc, exit_status, db, db_tree_size, etcd_client,
          server_initialised, cluster_config, election_started, is_master,
          peer_added, queue_mutex, queue, new_sth_calls,
          received_older, updater_pc, local_size, promoted,
          tick_promoted, fetcher_returned, peer_done, updater_returns,
          sleeps_after_cancel, tick_queue, rejected_candidates, election,
          node_up, lease_holder, lease_ttl, node_served, servable,
          view_stale>>

main_vars == <<main_pc, exit_status, db, etcd_client, server_initialised,
               cluster_config, election_started, is_master, peer_added,
               fetcher_returned>>
queue_vars == <<queue_mutex, queue, new_sth_calls, received_older,
                rejected_candidates>>
updater_vars == <<updater_pc, local_size, promoted, tick_promoted,
                  updater_returns, sleeps_after_cancel, tick_queue>>
election_vars == <<election, node_up, lease_holder, lease_ttl>>
view_vars == <<node_served, servable, view_stale>>
cluster_vars == <<election, node_up, lease_holder, lease_ttl, node_served,
                  servable, view_stale>>

Inc(n) == IF n < MaxCount THEN n + 1 ELSE n

\* ------------------------------------------------------- flag validation
\* ValidateRead: access(path, R_OK) succeeds only for an existing file.
ValidateRead(path) == path \in {"garbage", "valid"}

\* DatabaseTypes counting cert_dir and tree_dir as two types.
DatabaseTypes_DirsCountedTwice(f) ==
  (IF f.sqlite_db # "" THEN 1 ELSE 0) + (IF f.leveldb_db # "" THEN 1 ELSE 0)
    + (IF f.cert_dir # "" THEN 1 ELSE 0) + (IF f.tree_dir # "" THEN 1 ELSE 0)

\* Number of database types named on the command line.
DatabaseTypes(f) ==
  (IF f.sqlite_db # "" THEN 1 ELSE 0) + (IF f.leveldb_db # "" THEN 1 ELSE 0)
    + (IF f.cert_dir # "" \/ f.tree_dir # "" THEN 1 ELSE 0)

\* CHECK_NE(FLAGS_cert_dir, FLAGS_tree_dir), made only for file storage.
DirsDiffer(f) ==
  (f.sqlite_db = "" /\ f.leveldb_db = "") => f.cert_dir # f.tree_dir

stand_alone_mode == FLAGS.etcd_host = ""

\* ReadPublicKey(FLAGS_target_public_key).ok()
PubkeyOk(path) == path = "valid"

TargetPublicKeySet(f) == f.target_public_key # ""
\* TargetLogUriSet with the CHECK left out.
TargetLogUriSet_Unchecked(f) == TRUE

TargetLogUriSet(f) == f.target_log_uri # ""

\* ------------------------------------------------------------------ Init
Init ==
  /\ FLAGS \in Flags
  /\ main_pc = "ParseCommandLineFlags"
  /\ exit_status = "running"
  /\ db = "none"
  /\ db_tree_size = 0
  /\ etcd_client = "none"
  /\ server_initialised = FALSE
  /\ cluster_config = None
  /\ election_started = FALSE
  /\ is_master = FALSE
  /\ peer_added = FALSE
  /\ queue_mutex = "free"
  /\ queue = <<>>
  /\ new_sth_calls = 0
  /\ received_older = FALSE
  /\ updater_pc = "not_started"
  /\ local_size = 0
  /\ promoted = <<>>
  /\ tick_promoted = <<>>
  /\ fetcher_returned = FALSE
  /\ peer_done = FALSE
  /\ updater_returns = 0
  /\ sleeps_after_cancel = 0
  /\ tick_queue = <<>>
  /\ rejected_candidates = 0
  /\ election = [n \in Nodes |-> "idle"]
  /\ node_up = [n \in Nodes |-> TRUE]
  /\ lease_holder = 0
  /\ lease_ttl = 0
  /\ node_served = [n \in Nodes |-> 0]
  /\ servable = 0
  /\ view_stale = FALSE

\* ------------------------------------------------------------------ main
\* One step of main(): it moves to `next` unless the process has to die.
MainStep(from, ok, next, death) ==
  /\ main_pc = from
  /\ exit_status = "running"
  /\ IF ok THEN main_pc' = next /\ exit_status' = exit_status
           ELSE main_pc' = "dead" /\ exit_status' = death

\* google::ParseCommandLineFlags runs the registered validators and exits
\* with status 1 when one of them rejects its flag.
ParseCommandLineFlags ==
  /\ MainStep("ParseCommandLineFlags", ValidateRead(FLAGS.target_public_key),
              "CheckDatabaseType", "exit1")
  /\ UNCHANGED <<FLAGS, db, db_tree_size, etcd_client, server_initialised,
                 cluster_config, election_started, is_master, peer_added,
                 fetcher_returned, peer_done>>
  /\ UNCHANGED queue_vars /\ UNCHANGED updater_vars
  /\ UNCHANGED cluster_vars

CheckDatabaseType ==
  /\ MainStep("CheckDatabaseType", DatabaseTypes(FLAGS) = 1,
              "CheckDirs", "exit1")
  /\ UNCHANGED <<FLAGS, db, db_tree_size, etcd_client, server_initialised,
                 cluster_config, election_started, is_master, peer_added,
                 fetcher_returned, peer_done>>
  /\ UNCHANGED queue_vars /\ UNCHANGED updater_vars
  /\ UNCHANGED cluster_vars

CheckDirs ==
  /\ MainStep("CheckDirs", DirsDiffer(FLAGS), "CreateDatabase", "abort")
  /\ UNCHANGED <<FLAGS, db, db_tree_size, etcd_client, server_initialised,
                 cluster_config, election_started, is_master, peer_added,
                 fetcher_returned, peer_done>>
  /\ UNCHANGED queue_vars /\ UNCHANGED updater_vars
  /\ UNCHANGED cluster_vars

CreateDatabase ==
  /\ MainStep("CreateDatabase", TRUE, "CreateEtcdClient", "abort")
  /\ db' = IF FLAGS.sqlite_db # "" THEN "SQLiteDB"
           ELSE IF FLAGS.leveldb_db # "" THEN "LevelDB" ELSE "FileDB"
  /\ UNCHANGED <<FLAGS, db_tree_size, etcd_client, server_initialised,
                 cluster_config, election_started, is_master, peer_added,
                 fetcher_returned, peer_done>>
  /\ UNCHANGED queue_vars /\ UNCHANGED updater_vars
  /\ UNCHANGED cluster_vars

CreateEtcdClient ==
  /\ MainStep("CreateEtcdClient", TRUE, "ServerInitialise", "abort")
  /\ etcd_client' = IF stand_alone_mode THEN "fake" ELSE "real"
  /\ UNCHANGED <<FLAGS, db, db_tree_size, server_initialised,
                 cluster_config, election_started, is_master, peer_added,
                 fetcher_returned, peer_done>>
  /\ UNCHANGED queue_vars /\ UNCHANGED updater_vars
  /\ UNCHANGED cluster_vars

ServerInitialise ==
  /\ MainStep("ServerInitialise", TRUE,
              IF stand_alone_mode THEN "SetClusterConfig" ELSE "CheckServer",
              "abort")
  /\ server_initialised' = TRUE
  /\ UNCHANGED <<FLAGS, db, db_tree_size, etcd_client,
                 cluster_config, election_started, is_master, peer_added,
                 fetcher_returned, peer_done>>
  /\ UNCHANGED queue_vars /\ UNCHANGED updater_vars
  /\ UNCHANGED cluster_vars

\* The default single-node ClusterConfig of stand-alone mode.
DefaultClusterConfig ==
  [minimum_serving_nodes |-> 1, minimum_serving_fraction |-> 1]

SetClusterConfig ==
  /\ MainStep("SetClusterConfig", TRUE, "StartElection", "abort")
  /\ cluster_config' = DefaultClusterConfig
  /\ UNCHANGED <<FLAGS, db, db_tree_size, etcd_client, server_initialised,
                 election_started, is_master, peer_added,
                 fetcher_returned, peer_done>>
  /\ UNCHANGED queue_vars /\ UNCHANGED updater_vars
  /\ UNCHANGED cluster_vars

StartElection ==
  /\ MainStep("StartElection", TRUE, "WaitToBecomeMaster", "abort")
  /\ election_started' = TRUE
  /\ UNCHANGED <<FLAGS, db, db_tree_size, etcd_client, server_initialised,
                 cluster_config, is_master, peer_added,
                 fetcher_returned, peer_done>>
  /\ UNCHANGED queue_vars /\ UNCHANGED updater_vars
  /\ UNCHANGED cluster_vars

\* MasterElection: a contending node acquires the lease.
BecomeMaster ==
  /\ election_started /\ ~is_master
  /\ exit_status = "running"
  /\ is_master' = TRUE
  /\ UNCHANGED <<FLAGS, main_pc, exit_status, db, db_tree_size, etcd_client,
                 server_initialised, cluster_config, election_started,
                 peer_added, fetcher_returned, peer_done>>
  /\ UNCHANGED queue_vars /\ UNCHANGED updater_vars
  /\ UNCHANGED cluster_vars

\* WaitToBecomeMaster that returns without waiting for the lease.
WaitToBecomeMaster_NoWait ==
  /\ MainStep("WaitToBecomeMaster", TRUE, "CheckTargetPublicKey", "abort")
  /\ UNCHANGED <<FLAGS, db, db_tree_size, etcd_client, server_initialised,
                 cluster_config, election_started, is_master, peer_added,
                 fetcher_returned, peer_done>>
  /\ UNCHANGED queue_vars /\ UNCHANGED updater_vars
  /\ UNCHANGED cluster_vars

\* WaitToBecomeMaster() blocks main until this node is master.
WaitToBecomeMaster ==
  /\ is_master
  /\ MainStep("WaitToBecomeMaster", TRUE, "CheckTargetPublicKey", "abort")
  /\ UNCHANGED <<FLAGS, db, db_tree_size, etcd_client, server_initialised,
                 cluster_config, election_started, is_master, peer_added,
                 fetcher_returned, peer_done>>
  /\ UNCHANGED queue_vars /\ UNCHANGED updater_vars
  /\ UNCHANGED cluster_vars

CheckServer ==
  /\ MainStep("CheckServer", FLAGS.server # "", "CheckTargetPublicKey",
              "abort")
  /\ UNCHANGED <<FLAGS, db, db_tree_size, etcd_client, server_initialised,
                 cluster_config, election_started, is_master, peer_added,
                 fetcher_returned, peer_done>>
  /\ UNCHANGED queue_vars /\ UNCHANGED updater_vars
  /\ UNCHANGED cluster_vars

CheckTargetPublicKey ==
  /\ MainStep("CheckTargetPublicKey", TargetPublicKeySet(FLAGS),
              "CheckTargetLogUri", "abort")
  /\ UNCHANGED <<FLAGS, db, db_tree_size, etcd_client, server_initialised,
                 cluster_config, election_started, is_master, peer_added,
                 fetcher_returned, peer_done>>
  /\ UNCHANGED queue_vars /\ UNCHANGED updater_vars
  /\ UNCHANGED cluster_vars

CheckTargetLogUri ==
  /\ MainStep("CheckTargetLogUri", TargetLogUriSet(FLAGS),
              "ReadPublicKey", "abort")
  /\ UNCHANGED <<FLAGS, db, db_tree_size, etcd_client, server_initialised,
                 cluster_config, election_started, is_master, peer_added,
                 fetcher_returned, peer_done>>
  /\ UNCHANGED queue_vars /\ UNCHANGED updater_vars
  /\ UNCHANGED cluster_vars

ReadPublicKey ==
  /\ MainStep("ReadPublicKey", PubkeyOk(FLAGS.target_public_key),
              "AddPeer", "abort")
  /\ UNCHANGED <<FLAGS, db, db_tree_size, etcd_client, server_initialised,
                 cluster_config, election_started, is_master, peer_added,
                 fetcher_returned, peer_done>>
  /\ UNCHANGED queue_vars /\ UNCHANGED updater_vars
  /\ UNCHANGED cluster_vars

\* The RemotePeer is built with new_sth and a child of fetcher_task, and is
\* handed to the ContinuousFetcher.
AddPeer ==
  /\ MainStep("AddPeer", TRUE, "StartSTHUpdater", "abort")
  /\ peer_added' = TRUE
  /\ UNCHANGED <<FLAGS, db, db_tree_size, etcd_client, server_initialised,
                 cluster_config, election_started, is_master,
                 fetcher_returned, peer_done>>
  /\ UNCHANGED queue_vars /\ UNCHANGED updater_vars
  /\ UNCHANGED cluster_vars

\* thread sth_updater(&STHUpdater, ...)
StartSTHUpdater ==
  /\ MainStep("StartSTHUpdater", TRUE, "ServerRun", "abort")
  /\ updater_pc' = "CancelRequested"
  /\ UNCHANGED <<FLAGS, db, db_tree_size, etcd_client, server_initialised,
                 cluster_config, election_started, is_master, peer_added,
                 fetcher_returned, peer_done>>
  /\ UNCHANGED queue_vars
  /\ UNCHANGED <<local_size, promoted, tick_promoted, updater_returns,
                 sleeps_after_cancel, tick_queue>>
  /\ UNCHANGED cluster_vars

\* server.Run() returns when the event loop is stopped.
ServerRun ==
  /\ MainStep("ServerRun", TRUE, "FetcherTaskReturn", "abort")
  /\ UNCHANGED <<FLAGS, db, db_tree_size, etcd_client, server_initialised,
                 cluster_config, election_started, is_master, peer_added,
                 fetcher_returned, peer_done>>
  /\ UNCHANGED queue_vars /\ UNCHANGED updater_vars
  /\ UNCHANGED cluster_vars

\* fetcher_task.task()->Return()
FetcherTaskReturn ==
  /\ MainStep("FetcherTaskReturn", TRUE, "FetcherTaskWait", "abort")
  /\ fetcher_returned' = TRUE
  /\ UNCHANGED <<FLAGS, db, db_tree_size, etcd_client, server_initialised,
                 cluster_config, election_started, is_master, peer_added,
                 peer_done>>
  /\ UNCHANGED queue_vars /\ UNCHANGED updater_vars
  /\ UNCHANGED cluster_vars

\* ------------------------------------------------------------ util::Task
\* A child task is asked to cancel once its parent has returned.
CancelRequested == fetcher_returned

\* The STHUpdater child is done once Return() was called on it.
UpdaterTaskDone == updater_returns > 0

\* FetcherTaskDone that looks at the parent's own Return() only.
FetcherTaskDone_ReturnOnly == fetcher_returned

\* A parent task is done when it has returned and all its children are done.
FetcherTaskDone == fetcher_returned /\ peer_done /\ UpdaterTaskDone

\* fetcher_task.Wait()
FetcherTaskWait ==
  /\ FetcherTaskDone
  /\ MainStep("FetcherTaskWait", TRUE, "join", "abort")
  /\ UNCHANGED <<FLAGS, db, db_tree_size, etcd_client, server_initialised,
                 cluster_config, election_started, is_master, peer_added,
                 fetcher_returned, peer_done>>
  /\ UNCHANGED queue_vars /\ UNCHANGED updater_vars
  /\ UNCHANGED cluster_vars

\* sth_updater.join() returns when STHUpdater returns; its while (true) loop
\* has no exit, so main stays at "join".

\* The RemotePeer stops polling when its task is cancelled and returns it.
PeerExit ==
  /\ peer_added /\ ~peer_done
  /\ CancelRequested
  /\ peer_done' = TRUE
  /\ UNCHANGED <<FLAGS, db, db_tree_size>>
  /\ UNCHANGED main_vars /\ UNCHANGED queue_vars /\ UNCHANGED updater_vars
  /\ UNCHANGED cluster_vars

\* The fetcher stores entries: TreeSize() only grows.
StorageGrow ==
  /\ peer_added
  /\ db_tree_size < MaxTreeSize
  /\ db_tree_size' = db_tree_size + 1
  /\ UNCHANGED <<FLAGS, db, peer_done>>
  /\ UNCHANGED main_vars /\ UNCHANGED queue_vars /\ UNCHANGED updater_vars
  /\ UNCHANGED cluster_vars

\* ----------------------------------------------------------------- queue
EmptyQueue == [k \in {} |-> None]

SetMin(S) == CHOOSE m \in S : \A x \in S : m <= x
SetMax(S) == CHOOSE m \in S : \A x \in S : m >= x

\* BeginKey for a map ordered by descending key.
BeginKey_Largest(q) == SetMax(DOMAIN q)

\* The key of queue->begin(): std::map iterates in ascending key order.
BeginKey(q) == SetMin(DOMAIN q)

\* queue->begin()->second
Begin(q) == q[BeginKey(q)]

\* queue->erase(queue->begin())
EraseBegin(q) == [k \in (DOMAIN q) \ {BeginKey(q)} |-> q[k]]

\* queue.find(sth.tree_size()) != queue.end()
Found(q, sth) == sth.tree_size \in DOMAIN q

\* std::map::insert: adds the pair only when the key is absent.
Insert(q, sth) ==
  IF sth.tree_size \in DOMAIN q
    THEN q
    ELSE [k \in (DOMAIN q) \cup {sth.tree_size} |->
            IF k = sth.tree_size THEN sth ELSE q[k]]

\* The early return of new_sth: "Received older STH".
ReceivedOlder(q, sth) ==
  Found(q, sth) /\ sth.timestamp < q[sth.tree_size].timestamp

\* NewSthQueue as an unconditional queue[sth.tree_size()] = sth.
NewSthQueue_Assign(q, sth) ==
  [k \in (DOMAIN q) \cup {sth.tree_size} |->
     IF k = sth.tree_size THEN sth ELSE q[k]]

\* The queue after new_sth(sth).
NewSthQueue(q, sth) == IF ReceivedOlder(q, sth) THEN q ELSE Insert(q, sth)

\* new_sth without taking queue_mutex.
new_sth_NoLock(sth) ==
  /\ peer_added /\ ~peer_done
  /\ new_sth_calls < MaxNewSth
  /\ queue' = NewSthQueue(queue, sth)
  /\ received_older' = ReceivedOlder(queue, sth)
  /\ new_sth_calls' = new_sth_calls + 1
  /\ UNCHANGED <<FLAGS, db, db_tree_size, peer_done, queue_mutex,
                 rejected_candidates>>
  /\ UNCHANGED main_vars /\ UNCHANGED updater_vars
  /\ UNCHANGED cluster_vars

\* The new_sth callback, run by the RemotePeer for each verified head.  The
\* whole body runs under lock_guard<mutex> lock(queue_mutex).
new_sth(sth) ==
  /\ peer_added /\ ~peer_done
  /\ new_sth_calls < MaxNewSth
  /\ queue_mutex = "free"
  /\ queue' = NewSthQueue(queue, sth)
  /\ received_older' = ReceivedOlder(queue, sth)
  /\ new_sth_calls' = new_sth_calls + 1
  /\ UNCHANGED <<FLAGS, db, db_tree_size, peer_done, queue_mutex,
                 rejected_candidates>>
  /\ UNCHANGED main_vars /\ UNCHANGED updater_vars
  /\ UNCHANGED cluster_vars

\* ------------------------------------------------------------ RemotePeer
\* A candidate head as the RemotePeer gets it from the target log: the head,
\* whether its signature verifies under the log's public key, and whether
\* its consistency proof against the last verified head checks out.
Candidates ==
  [sth : SignedTreeHead, signature_ok : BOOLEAN, consistency_ok : BOOLEAN]

\* Verify that checks the signature only.
Verify_SignatureOnly(c) == c.signature_ok

\* TreeHeadVerifier: a candidate passes only with a valid signature and a
\* valid consistency proof.
Verify(c) == c.signature_ok /\ c.consistency_ok

\* The peer delivers a bounded number of candidates in one run.
PeerMayDeliver ==
  /\ peer_added /\ ~peer_done
  /\ new_sth_calls + rejected_candidates < MaxNewSth

\* A verified candidate is forwarded to new_sth.
RemotePeerAccept(c) ==
  /\ PeerMayDeliver
  /\ Verify(c)
  /\ new_sth(c.sth)

\* The upstream log serves a candidate that fails verification: it is
\* dropped and logged.
RemotePeerReject ==
  /\ PeerMayDeliver
  /\ {c \in Candidates : ~Verify(c)} # {}
  /\ rejected_candidates' = rejected_candidates + 1
  /\ UNCHANGED <<FLAGS, db, db_tree_size, peer_done, queue_mutex, queue,
                 new_sth_calls, received_older>>
  /\ UNCHANGED main_vars /\ UNCHANGED updater_vars
  /\ UNCHANGED cluster_vars

\* ------------------------------------------------------------ STHUpdater
\* if (task->CancelRequested()) task->Return(CANCELLED); the loop goes on.
UpdaterCancelRequested ==
  /\ updater_pc = "CancelRequested"
  /\ updater_returns' = IF CancelRequested THEN Inc(updater_returns)
                        ELSE updater_returns
  /\ updater_pc' = "TreeSize"
  /\ UNCHANGED <<FLAGS, db, db_tree_size, peer_done, local_size, promoted,
                 tick_promoted, sleeps_after_cancel, tick_queue>>
  /\ UNCHANGED main_vars /\ UNCHANGED queue_vars
  /\ UNCHANGED cluster_vars

\* UpdaterTreeSize keeping the size it had instead of reading the storage.
UpdaterTreeSize_Stale ==
  /\ updater_pc = "TreeSize"
  /\ local_size' = local_size
  /\ updater_pc' = "Lock"
  /\ UNCHANGED <<FLAGS, db, db_tree_size, peer_done, promoted,
                 tick_promoted, updater_returns, sleeps_after_cancel,
                 tick_queue>>
  /\ UNCHANGED main_vars /\ UNCHANGED queue_vars
  /\ UNCHANGED cluster_vars

\* const int64_t local_size(db->TreeSize())
UpdaterTreeSize ==
  /\ updater_pc = "TreeSize"
  /\ local_size' = db_tree_size
  /\ updater_pc' = "Lock"
  /\ UNCHANGED <<FLAGS, db, db_tree_size, peer_done, promoted,
                 tick_promoted, updater_returns, sleeps_after_cancel,
                 tick_queue>>
  /\ UNCHANGED main_vars /\ UNCHANGED queue_vars
  /\ UNCHANGED cluster_vars

\* lock_guard<mutex> lock(*queue_mutex)
UpdaterLock ==
  /\ updater_pc = "Lock"
  /\ queue_mutex = "free"
  /\ queue_mutex' = "updater"
  /\ updater_pc' = "Drain"
  /\ tick_queue' = queue
  /\ UNCHANGED <<FLAGS, db, db_tree_size, peer_done, local_size, promoted,
                 tick_promoted, updater_returns, sleeps_after_cancel>>
  /\ UNCHANGED main_vars
  /\ UNCHANGED <<queue, new_sth_calls, received_older, rejected_candidates>>
  /\ UNCHANGED cluster_vars

\* CanServe without the comparison against local_size.
CanServe_NoSizeCheck(q, size) == q # EmptyQueue

\* CanServe with a strict comparison against local_size.
CanServe_Strict(q, size) == q # EmptyQueue /\ Begin(q).tree_size < size

\* The condition of the drain loop.
CanServe(q, size) == q # EmptyQueue /\ Begin(q).tree_size <= size

\* The head the drain loop hands to NewTreeHead.
Served(q) == Begin(q)

\* Erased removing the last entry of the queue instead of the first.
Erased_Last(q) == [k \in (DOMAIN q) \ {SetMax(DOMAIN q)} |-> q[k]]

\* The queue after the drain loop's erase.
Erased(q) == EraseBegin(q)

\* One evaluation of the drain loop: promote and erase the first entry, or
\* leave the block and release the lock.
UpdaterDrain ==
  /\ updater_pc = "Drain"
  /\ IF CanServe(queue, local_size)
       THEN /\ promoted' = Append(promoted, Served(queue))
            /\ tick_promoted' = Append(tick_promoted, Served(queue))
            /\ queue' = Erased(queue)
            /\ UNCHANGED <<updater_pc, queue_mutex, tick_queue>>
       ELSE /\ queue_mutex' = "free"
            /\ updater_pc' = "Sleep"
            /\ tick_promoted' = <<>>
            /\ tick_queue' = EmptyQueue
            /\ UNCHANGED <<promoted, queue>>
  /\ UNCHANGED <<FLAGS, db, db_tree_size, peer_done, local_size,
                 updater_returns, sleeps_after_cancel>>
  /\ UNCHANGED main_vars
  /\ UNCHANGED <<new_sth_calls, received_older, rejected_candidates>>
  /\ UNCHANGED cluster_vars

\* std::this_thread::sleep_for(...); the iteration ends, local_size goes out
\* of scope, and the loop starts over.
UpdaterSleep ==
  /\ updater_pc = "Sleep"
  /\ local_size' = 0
  /\ sleeps_after_cancel' = IF CancelRequested
                              THEN Inc(sleeps_after_cancel)
                              ELSE sleeps_after_cancel
  /\ updater_pc' = "CancelRequested"
  /\ UNCHANGED <<FLAGS, db, db_tree_size, peer_done, promoted,
                 tick_promoted, updater_returns, tick_queue>>
  /\ UNCHANGED main_vars /\ UNCHANGED queue_vars
  /\ UNCHANGED cluster_vars

\* ------------------------------------------------------------------ Spec
Next ==
  \/ ParseCommandLineFlags
  \/ CheckDatabaseType
  \/ CheckDirs
  \/ CreateDatabase
  \/ CreateEtcdClient
  \/ ServerInitialise
  \/ SetClusterConfig
  \/ StartElection
  \/ BecomeMaster
  \/ WaitToBecomeMaster
  \/ CheckServer
  \/ CheckTargetPublicKey
  \/ CheckTargetLogUri
  \/ ReadPublicKey
  \/ AddPeer
  \/ StartSTHUpdater
  \/ ServerRun
  \/ FetcherTaskReturn
  \/ FetcherTaskWait
  \/ PeerExit
  \/ StorageGrow
  \/ \E c \in Candidates : RemotePeerAccept(c)
  \/ RemotePeerReject
  \/ UpdaterCancelRequested
  \/ UpdaterTreeSize
  \/ UpdaterLock
  \/ UpdaterDrain
  \/ UpdaterSleep

Spec == Init /\ [][Next]_vars

\* -------------------------------------------------------- MasterElection
\* The election of a cluster of mirror nodes, each of them a process of this
\* program in clustered mode, over the lease of the consistent store.
ClusteredFlags ==
  [sqlite_db |-> "db", leveldb_db |-> "", cert_dir |-> "", tree_dir |-> "",
   target_public_key |-> "valid", target_log_uri |-> "uri",
   etcd_host |-> "etcd", server |-> "localhost"]

ClusterInit == Init /\ FLAGS = ClusteredFlags

ProcessIdle ==
  /\ UNCHANGED <<FLAGS, db, db_tree_size, peer_done>>
  /\ UNCHANGED main_vars /\ UNCHANGED queue_vars /\ UNCHANGED updater_vars

\* StartElection(): the node begins to contend.
NodeStartElection(n) ==
  /\ node_up[n] /\ election[n] = "idle"
  /\ election' = [election EXCEPT ![n] = "contending"]
  /\ UNCHANGED <<node_up, lease_holder, lease_ttl>>
  /\ UNCHANGED view_vars /\ ProcessIdle

\* The lease can be taken by any contender.
LeaseFree_Always == TRUE

\* The lease can be taken only while no node holds it.
LeaseFree == lease_holder = 0

\* WaitToBecomeMaster() returns on node n: it has got the lease.
NodeBecomeMaster(n) ==
  /\ node_up[n] /\ election[n] = "contending"
  /\ LeaseFree
  /\ lease_holder' = n
  /\ lease_ttl' = MaxTTL
  /\ election' = [election EXCEPT ![n] = "master"]
  /\ UNCHANGED node_up
  /\ UNCHANGED view_vars /\ ProcessIdle

\* A running master renews its lease.
LeaseRenew ==
  /\ lease_holder # 0 /\ node_up[lease_holder]
  /\ lease_ttl < MaxTTL
  /\ lease_ttl' = MaxTTL
  /\ UNCHANGED <<election, node_up, lease_holder>>
  /\ UNCHANGED view_vars /\ ProcessIdle

\* Time passes on the store's clock.
LeaseTick ==
  /\ lease_holder # 0 /\ lease_ttl > 0
  /\ lease_ttl' = lease_ttl - 1
  /\ UNCHANGED <<election, node_up, lease_holder>>
  /\ UNCHANGED view_vars /\ ProcessIdle

\* The lease lapses: its holder is master no more.
LeaseExpire ==
  /\ lease_holder # 0 /\ lease_ttl = 0
  /\ election' = [election EXCEPT ![lease_holder] =
                    IF node_up[lease_holder] THEN "contending" ELSE "idle"]
  /\ lease_holder' = 0
  /\ UNCHANGED <<node_up, lease_ttl>>
  /\ UNCHANGED view_vars /\ ProcessIdle

\* A node crashes or is cut off from the store; a master among them keeps
\* the lease until it lapses.
NodeCrash(n) ==
  /\ node_up[n]
  /\ node_up' = [node_up EXCEPT ![n] = FALSE]
  /\ election' = [election EXCEPT ![n] =
                    IF election[n] = "master" THEN "master" ELSE "idle"]
  /\ UNCHANGED <<lease_holder, lease_ttl>>
  /\ UNCHANGED view_vars /\ ProcessIdle

\* A crashed node comes back, once any lease it held has lapsed.
NodeRestart(n) ==
  /\ ~node_up[n] /\ election[n] = "idle"
  /\ node_up' = [node_up EXCEPT ![n] = TRUE]
  /\ UNCHANGED <<election, lease_holder, lease_ttl>>
  /\ UNCHANGED view_vars /\ ProcessIdle

ElectionNext ==
  \/ \E n \in Nodes : NodeStartElection(n)
  \/ \E n \in Nodes : NodeBecomeMaster(n)
  \/ LeaseRenew
  \/ LeaseTick
  \/ LeaseExpire
  \/ \E n \in Nodes : NodeCrash(n)
  \/ \E n \in Nodes : NodeRestart(n)

ElectionSpec == ClusterInit /\ [][ElectionNext]_vars

\* ------------------------------------------------ ClusterStateController
\* The served sizes a node can publish.
ServedSizes == {50 * i : i \in 0..MaxServed}

\* The nodes whose published served size is at least s.
NodesServing(served, s) == {n \in Nodes : served[n] >= s}

\* ServableSize as the largest size any single node has published.
ServableSize_AnyNode(served, min_nodes) ==
  SetMax({served[n] : n \in Nodes})

\* The aggregated servable size: the largest size that at least min_nodes
\* nodes serve.
ServableSize(served, min_nodes) ==
  SetMax({s \in ServedSizes :
            Cardinality(NodesServing(served, s)) >= min_nodes})

ViewIdle ==
  /\ UNCHANGED <<FLAGS, db, db_tree_size, peer_done, main_pc, exit_status,
                 etcd_client, server_initialised, election_started,
                 is_master, peer_added, fetcher_returned>>
  /\ UNCHANGED queue_vars /\ UNCHANGED updater_vars
  /\ UNCHANGED election_vars

\* The operator provisions the ClusterConfig of a clustered log.
OperatorSetConfig(min_nodes) ==
  /\ cluster_config = None
  /\ cluster_config' = [minimum_serving_nodes |-> min_nodes,
                        minimum_serving_fraction |-> 0]
  /\ view_stale' = TRUE
  /\ UNCHANGED <<node_served, servable>>
  /\ ViewIdle

\* NewTreeHead on node n: it publishes its served size in its own
\* ClusterNodeState.
NodePublish(n, s) ==
  /\ node_served[n] # s
  /\ node_served' = [node_served EXCEPT ![n] = s]
  /\ view_stale' = TRUE
  /\ UNCHANGED <<cluster_config, servable>>
  /\ ViewIdle

\* The controller sees the latest node states and config and recomputes the
\* cluster view.
ViewRecompute ==
  /\ cluster_config # None
  /\ servable' = ServableSize(node_served,
                              cluster_config.minimum_serving_nodes)
  /\ view_stale' = FALSE
  /\ UNCHANGED <<cluster_config, node_served>>
  /\ ViewIdle

QuorumNext ==
  \/ \E m \in Nodes : OperatorSetConfig(m)
  \/ \E n \in Nodes, s \in ServedSizes : NodePublish(n, s)
  \/ ViewRecompute

QuorumSpec == ClusterInit /\ [][QuorumNext]_vars

\* Fairness of the program's own threads: main() and STHUpdater keep running
\* while they are not blocked.  Whether and when the election is won, when
\* server.Run() returns and what the RemotePeer does are up to the
\* environment.
MainThread ==
  \/ ParseCommandLineFlags \/ CheckDatabaseType \/ CheckDirs
  \/ CreateDatabase \/ CreateEtcdClient \/ ServerInitialise
  \/ SetClusterConfig \/ StartElection \/ WaitToBecomeMaster \/ CheckServer
  \/ CheckTargetPublicKey \/ CheckTargetLogUri \/ ReadPublicKey
  \/ AddPeer \/ StartSTHUpdater \/ FetcherTaskReturn \/ FetcherTaskWait

UpdaterThread ==
  \/ UpdaterCancelRequested \/ UpdaterTreeSize \/ UpdaterLock
  \/ UpdaterDrain \/ UpdaterSleep

FairSpec == Spec /\ WF_vars(MainThread) /\ WF_vars(UpdaterThread)

\* ---------------------------------------------------------------- claims
PipelineStarted == peer_added /\ updater_pc # "not_started"

\* C1 (no premature promotion): every head passed to NewTreeHead has a
\* tree_size that is at most db->TreeSize(); since TreeSize() never shrinks
\* this is checked against the current size in every state.  The size read at
\* the start of the tick never exceeds the current one.
C1_NoPrematurePromotion ==
  /\ \A i \in 1..Len(promoted) : promoted[i].tree_size <= db_tree_size
  /\ local_size <= db_tree_size

\* A head was promoted while a larger one stays queued, out of reach of the
\* size read for this tick.
C1_Witness ==
  /\ updater_pc = "Drain"
  /\ Len(tick_promoted) > 0
  /\ queue # EmptyQueue
  /\ Begin(queue).tree_size > local_size

\* C2 as stated (monotonicity): the heads passed to NewTreeHead are in
\* non-decreasing tree_size order, across ticks too.
C2_PromotedNonDecreasing ==
  \A i, j \in 1..Len(promoted) :
    i < j => promoted[i].tree_size <= promoted[j].tree_size

\* C2 as amended: the heads passed to NewTreeHead during one drain (one
\* holding of queue_mutex by STHUpdater) are in strictly increasing tree_size
\* order.
C2_TickStrictlyIncreasing ==
  \A i, j \in 1..Len(tick_promoted) :
    i < j => tick_promoted[i].tree_size < tick_promoted[j].tree_size

\* One drain promoted two heads.
C2_Witness == updater_pc = "Drain" /\ Len(tick_promoted) >= 2

\* C3 as stated (queue dedup, newest wins): when new_sth is called with a
\* head whose tree_size is already queued, the queue afterwards holds for
\* that size the head with the larger timestamp of the two.
C3_NewestWins ==
  [][\A sth \in SignedTreeHead :
       (new_sth(sth) /\ sth.tree_size \in DOMAIN queue) =>
         queue'[sth.tree_size].timestamp =
           (IF sth.timestamp > queue[sth.tree_size].timestamp
              THEN sth.timestamp ELSE queue[sth.tree_size].timestamp)]_vars

\* C4 (older duplicate is a no-op): a new_sth call with a head whose
\* tree_size is queued with a strictly larger timestamp leaves the whole
\* queue unchanged.
C4_OlderDuplicateNoOp ==
  [][\A sth \in SignedTreeHead :
       (/\ sth.tree_size \in DOMAIN queue
        /\ sth.timestamp < queue[sth.tree_size].timestamp
        /\ new_sth(sth)) =>
         queue' = queue]_vars

\* The last new_sth call was given an older duplicate.
C4_Witness == received_older /\ queue # EmptyQueue

\* C5 as stated (cancellation terminates the loop): once cancellation has
\* been requested, STHUpdater finishes at most the sleep it is in; it never
\* completes a second one.
C5_ExitsWithinOneInterval == sleeps_after_cancel <= 1

\* C6 as stated (no publishing after cancellation): once STHUpdater has
\* returned CANCELLED on its task, no step calls NewTreeHead or removes an
\* entry from the queue.
C6_NoPublishAfterCancel ==
  [][updater_returns > 0 =>
       (promoted' = promoted /\ DOMAIN queue \subseteq DOMAIN queue')]_vars

\* C7 (supervisor completion): fetcher_task.Wait() has returned only if both
\* child tasks have returned.
C7_WaitAfterChildren ==
  main_pc = "join" => (peer_done /\ updater_returns > 0)

\* main is past fetcher_task.Wait().
C7_Witness == main_pc = "join" /\ fetcher_returned

\* C8 as stated (standalone bootstrap order): a ClusterConfig is in the
\* store only if this node is master already.
C8_ConfigAfterMastership == cluster_config # None => is_master

\* The fatal start-up errors: conflicting backend flags, an empty, unreadable
\* or unparsable public key, an empty log URI.
FatalStartupError ==
  \/ DatabaseTypes(FLAGS) # 1
  \/ FLAGS.target_public_key \in {"", "missing", "garbage"}
  \/ FLAGS.target_log_uri = ""

C10_FatalBeforeLoops ==
  FatalStartupError =>
    (/\ ~peer_added
     /\ updater_pc = "not_started"
     /\ main_pc \notin {"StartSTHUpdater", "ServerRun", "FetcherTaskReturn",
                        "FetcherTaskWait", "join"})

\* The process died on an empty log URI, after the election.
C10_Witness ==
  /\ FLAGS.target_log_uri = ""
  /\ exit_status = "abort"
  /\ is_master

\* The three misconfigurations of C11: no public key, no upstream URI,
\* conflicting storage backend flags.
FatalMisconfiguration ==
  \/ FLAGS.target_public_key = ""
  \/ FLAGS.target_log_uri = ""
  \/ DatabaseTypes(FLAGS) # 1

\* C11 as stated (fatal misconfiguration precedes all network and cluster
\* activity): with one of the three misconfigurations the etcd client is
\* never created, server.Initialise never runs, no ClusterConfig is written
\* and no election is started.
C11_FatalBeforeClusterActivity ==
  FatalMisconfiguration =>
    (/\ etcd_client = "none"
     /\ ~server_initialised
     /\ cluster_config = None
     /\ ~election_started)

\* C12 (verification soundness): a candidate with an invalid signature or a
\* failing consistency proof is never passed to new_sth, and the queue gets
\* a new entry only from a candidate that passed both checks.
C12_VerificationSoundness ==
  [][/\ (new_sth_calls' # new_sth_calls \/ queue' # queue
           \/ promoted' # promoted) =>
          /\ ~RemotePeerReject
          /\ \A c \in Candidates :
               ~(c.signature_ok /\ c.consistency_ok) => ~RemotePeerAccept(c)
     /\ ~(DOMAIN queue' \subseteq DOMAIN queue) =>
          \E c \in Candidates :
            c.signature_ok /\ c.consistency_ok /\ RemotePeerAccept(c)]_vars

\* A candidate was rejected while a verified head is queued.
C12_Witness == rejected_candidates > 0 /\ queue # EmptyQueue

\* The nodes for which WaitToBecomeMaster() has returned and that have not
\* lost the lease since.
Masters == {n \in Nodes : election[n] = "master"}

\* C13 (single mastership): at most one node is master at any time, and a
\* node becomes master only in a step that starts with no master and with
\* the previous lease lapsed.
C13_SingleMastership ==
  /\ [](Cardinality(Masters) <= 1)
  /\ [][\A n \in Nodes :
          (election[n] # "master" /\ election'[n] = "master") =>
            (Masters = {} /\ lease_holder = 0)]_vars

\* A second node is master after the first one's lease has lapsed.
C13_Witness ==
  /\ election[2] = "master"
  /\ ~node_up[1]
  /\ election[1] = "idle"
  /\ election[3] = "contending"

\* The number of nodes whose published served size is exactly s.
Publishing(s) == Cardinality({n \in Nodes : node_served[n] = s})

\* C14 (quorum aggregation): once the view has caught up with the latest
\* published node states, whatever the order they were published in, the
\* servable size is the largest size that at least minimum_serving_nodes
\* nodes serve; with minimum_serving_nodes = 2, {100, 100, 50} gives 100 and
\* {100, 50, 50} gives 50.
C14_QuorumAggregation ==
  (cluster_config # None /\ ~view_stale) =>
    LET m == cluster_config.minimum_serving_nodes IN
      /\ Cardinality({n \in Nodes : node_served[n] >= servable}) >= m
      /\ \A s \in (servable + 1)..(50 * MaxServed) :
           Cardinality({n \in Nodes : node_served[n] >= s}) < m
      /\ (m = 2 /\ Publishing(100) = 2 /\ Publishing(50) = 1
            /\ Publishing(0) = NumNodes - 3) => servable = 100
      /\ (m = 2 /\ Publishing(100) = 1 /\ Publishing(50) = 2
            /\ Publishing(0) = NumNodes - 3) => servable = 50

\* The view has caught up with served sizes {100, 50, 50} under a quorum of
\* two nodes.
C14_Witness ==
  /\ cluster_config # None /\ ~view_stale
  /\ cluster_config.minimum_serving_nodes = 2
  /\ node_served[1] = 50 /\ node_served[2] = 100 /\ node_served[3] = 50
  /\ servable = 50

\* The heads of q with tree_size <= size, in ascending order of tree_size.
RECURSIVE AscendingUpTo(_, _)
AscendingUpTo(q, size) ==
  IF q = EmptyQueue \/ BeginKey(q) > size THEN <<>>
  ELSE <<Begin(q)>> \o AscendingUpTo(EraseBegin(q), size)

\* C15 (drain postcondition): when a tick of STHUpdater leaves the drain
\* block, it has promoted exactly the heads that were queued with
\* tree_size <= local_size, in strictly ascending order of tree_size, the
\* queue holds exactly the heads with tree_size > local_size, unchanged, and
\* the loop stopped on an empty queue or on a head above local_size.
C15_DrainPostcondition ==
  [][(updater_pc = "Drain" /\ updater_pc' = "Sleep") =>
       /\ tick_promoted = AscendingUpTo(tick_queue, local_size)
       /\ \A i, j \in 1..Len(tick_promoted) :
            i < j => tick_promoted[i].tree_size < tick_promoted[j].tree_size
       /\ DOMAIN queue' = {k \in DOMAIN tick_queue : k > local_size}
       /\ \A k \in DOMAIN queue' : queue'[k] = tick_queue[k]
       /\ \A k \in DOMAIN queue' :
            \A i \in 1..Len(tick_promoted) : tick_promoted[i].tree_size < k]_vars

\* The drain loop is about to stop on a head above local_size after having
\* promoted a smaller one.
C15_Witness ==
  /\ updater_pc = "Drain"
  /\ Len(tick_promoted) = 1
  /\ queue # EmptyQueue
  /\ tick_promoted[1].tree_size <= local_size
  /\ BeginKey(queue) > local_size

\* C16 (removal only by promotion, exactly once): an entry of the queue
\* disappears or changes only in a step that hands that very entry to
\* NewTreeHead, and every step that hands a head to NewTreeHead hands over
\* one entry of the queue and removes it in the same step.
C16_RemovalOnlyByPromotion ==
  [][/\ \A k \in DOMAIN queue :
          (k \notin DOMAIN queue' \/ queue'[k] # queue[k]) =>
            promoted' = Append(promoted, queue[k])
     /\ promoted' # promoted =>
          \E k \in DOMAIN queue :
            /\ promoted' = Append(promoted, queue[k])
            /\ DOMAIN queue' = (DOMAIN queue) \ {k}
            /\ \A x \in DOMAIN queue' : queue'[x] = queue[x]]_vars

\* Two heads were queued, the smaller one has been promoted and erased and
\* the larger one is still queued.
C16_Witness ==
  /\ Cardinality(DOMAIN tick_queue) = 2
  /\ Len(tick_promoted) = 1
  /\ tick_promoted[1] = Begin(tick_queue)
  /\ DOMAIN queue = (DOMAIN tick_queue) \ {BeginKey(tick_queue)}

\* C17 (queue mutual exclusion): STHUpdater holds queue_mutex exactly while
\* it is in the drain block, not while it tests for cancellation, reads
\* TreeSize(), waits for the lock or sleeps; every change of the queue is
\* made by the holder of the mutex, and new_sth touches nothing while
\* STHUpdater holds it.
C17_QueueMutualExclusion ==
  /\ [](queue_mutex = "updater" <=> updater_pc = "Drain")
  /\ [](updater_pc \in {"CancelRequested", "TreeSize", "Lock", "Sleep"} =>
          queue_mutex = "free")
  /\ [][/\ queue_mutex = "updater" =>
             /\ new_sth_calls' = new_sth_calls
             /\ received_older' = received_older
        /\ queue' # queue =>
             \/ queue_mutex = "updater" /\ promoted' # promoted
             \/ queue_mutex = "free" /\ new_sth_calls' # new_sth_calls]_vars

\* STHUpdater holds the mutex in the drain block while the peer has another
\* head to deliver.
C17_Witness ==
  /\ queue_mutex = "updater"
  /\ updater_pc = "Drain"
  /\ PeerMayDeliver
  /\ new_sth_calls = 1

\* The heads handed to NewTreeHead in the current tick.
TickPromotedHeads == {tick_promoted[i] : i \in 1..Len(tick_promoted)}

\* C18 (eventual promotion): with the threads scheduled fairly, a head that
\* is stored in the queue while the storage's TreeSize() has reached its
\* tree_size is eventually handed to NewTreeHead, unless the fetcher task is
\* cancelled.
C18_EventualPromotion ==
  \A h \in SignedTreeHead :
    (/\ h.tree_size \in DOMAIN queue
     /\ queue[h.tree_size] = h
     /\ h.tree_size <= db_tree_size)
      ~> (h \in TickPromotedHeads \/ CancelRequested)

\* Without cancellation, the largest head has been promoted after the
\* storage reached it and STHUpdater has gone to sleep on an empty queue.
C18_Witness ==
  /\ ~CancelRequested
  /\ updater_pc = "Sleep"
  /\ Len(promoted) >= 1
  /\ promoted[Len(promoted)].tree_size = MaxTreeSize
  /\ db_tree_size = MaxTreeSize
  /\ queue = EmptyQueue

\* The backend kinds the flags configure.
ConfiguredBackends ==
  {k \in {"sqlite", "leveldb", "file"} :
     \/ k = "sqlite" /\ FLAGS.sqlite_db # ""
     \/ k = "leveldb" /\ FLAGS.leveldb_db # ""
     \/ k = "file" /\ (FLAGS.cert_dir # "" \/ FLAGS.tree_dir # "")}

\* C19 (exactly one storage backend): main() gets past the backend check
\* if and only if exactly one backend kind is configured; otherwise it exits
\* with status 1 and no database object; with file storage alone and
\* cert_dir equal to tree_dir it aborts before the database is created; so a
\* database object exists only for exactly one kind and, for file storage,
\* distinct directories.
C19_ExactlyOneBackend ==
  /\ [][(main_pc = "CheckDatabaseType" /\ main_pc' # main_pc) =>
          /\ (main_pc' = "CheckDirs" /\ exit_status' = "running")
               <=> Cardinality(ConfiguredBackends) = 1
          /\ Cardinality(ConfiguredBackends) # 1 =>
               (exit_status' = "exit1" /\ db = "none" /\ db' = "none")]_vars
  /\ [][(/\ main_pc = "CheckDirs" /\ main_pc' # main_pc
         /\ ConfiguredBackends = {"file"}
         /\ FLAGS.cert_dir = FLAGS.tree_dir) =>
          (exit_status' = "abort" /\ db' = "none")]_vars
  /\ [](db # "none" =>
          /\ Cardinality(ConfiguredBackends) = 1
          /\ ConfiguredBackends = {"file"} => FLAGS.cert_dir # FLAGS.tree_dir)
  /\ []((exit_status = "running" /\ main_pc \notin
           {"ParseCommandLineFlags", "CheckDatabaseType"}) =>
          Cardinality(ConfiguredBackends) = 1)

\* The flag parser accepted the flags, two backend kinds are configured and
\* the process has exited with status 1 without a database object.
C19_Witness ==
  /\ ValidateRead(FLAGS.target_public_key)
  /\ Cardinality(ConfiguredBackends) = 2
  /\ "file" \in ConfiguredBackends
  /\ FLAGS.cert_dir # "" /\ FLAGS.tree_dir # ""
  /\ exit_status = "exit1"
  /\ main_pc = "dead"
  /\ db = "none"

\* C20 as stated (single task return): STHUpdater calls task->Return() on
\* its child task at most once.
C20_ReturnsAtMostOnce == updater_returns <= 1

TypeOK ==
  /\ FLAGS \in Flags
  /\ exit_status \in {"running", "exit1", "abort"}
  /\ db_tree_size \in 0..MaxTreeSize
  /\ queue_mutex \in {"free", "updater"}
  /\ DOMAIN queue \subseteq Sizes
  /\ \A k \in DOMAIN queue : queue[k] \in SignedTreeHead /\ queue[k].tree_size = k
  /\ new_sth_calls \in 0..MaxNewSth
  /\ Len(promoted) <= MaxNewSth
====
